---- MODULE Spec2Model ----
(***************************************************************************)
(* The useRBAC hook of packages/core/admin/admin/src/hooks/useRBAC.ts.     *)
(*                                                                         *)
(* Strings are sequences of one-character strings, so that split, join     *)
(* and capitalise are computed character by character.  JavaScript         *)
(* objects are sequences of <<key, value>> pairs in insertion order.       *)
(* undefined is the empty sequence None; a defined value x is <<x>>.       *)
(***************************************************************************)
EXTENDS Integers, Sequences, FiniteSets, TLC

VARIABLES
    hook,       \* the hook instance of the mounted component
    twin,       \* a second hook instance, rendered side by side (SpecPair)
    warnings,   \* number of lines written by console.warn in the process
    mounts,     \* number of components mounted so far
    fnIn,       \* SpecName: the action string under test
    fnOut       \* SpecName: the derived name and key, once computed

vars == <<hook, twin, warnings, mounts, fnIn, fnOut>>

----------------------------------------------------------------------------
(* Bounds *)

MaxActionLen == 4     \* longest action string drawn in SpecName
MaxChecks == 2        \* calls of checkUserHasPermissions by one instance
MaxMounts == 2        \* components mounted in one process lifetime

----------------------------------------------------------------------------
(* undefined and optional values *)

None == <<>>
Some(x) == <<x>>
IsSome(o) == o /= <<>>
Val(o) == o[1]

----------------------------------------------------------------------------
(* Strings *)

LowerCase ==
    <<"a","b","c","d","e","f","g","h","i","j","k","l","m",
      "n","o","p","q","r","s","t","u","v","w","x","y","z">>

UpperCase ==
    <<"A","B","C","D","E","F","G","H","I","J","K","L","M",
      "N","O","P","Q","R","S","T","U","V","W","X","Y","Z">>

\* String.prototype.toUpperCase on one character
toUpperCase(c) ==
    IF \E i \in 1..Len(LowerCase) : LowerCase[i] = c
    THEN UpperCase[CHOOSE i \in 1..Len(LowerCase) : LowerCase[i] = c]
    ELSE c

\* utils/strings capitalise: str.charAt(0).toUpperCase() + str.slice(1)
capitalise(str) ==
    IF str = <<>> THEN <<>> ELSE <<toUpperCase(Head(str))>> \o Tail(str)

\* String.prototype.split(sep) for a one-character separator: always at
\* least one part, empty parts are kept
RECURSIVE split(_, _)
split(str, sep) ==
    IF \A i \in 1..Len(str) : str[i] /= sep
    THEN <<str>>
    ELSE LET i == CHOOSE k \in 1..Len(str) :
                      /\ str[k] = sep
                      /\ \A j \in 1..(k - 1) : str[j] /= sep
         IN  <<SubSeq(str, 1, i - 1)>> \o split(SubSeq(str, i + 1, Len(str)), sep)

\* Array.prototype.slice(-1)
sliceLast(arr) == IF arr = <<>> THEN <<>> ELSE <<arr[Len(arr)]>>

\* Array.prototype.join('')
RECURSIVE join(_)
join(parts) == IF parts = <<>> THEN <<>> ELSE Head(parts) \o join(Tail(parts))

\* getActionName giving the empty name to an action without a dot
getActionName_emptyWithoutDot(permission) ==
    LET segs   == split(permission.action, ".")
        action == IF Len(segs) = 1 THEN <<>> ELSE segs[Len(segs)]
        parts  == split(action, "-")
    IN  join([i \in 1..Len(parts) |-> capitalise(parts[i])])

\* getActionName with the last dot-separated segment replaced by the first
getActionName_firstSegment(permission) ==
    LET segs   == split(permission.action, ".")
        action == segs[1]
        parts  == split(action, "-")
    IN  join([i \in 1..Len(parts) |-> capitalise(parts[i])])

getActionName(permission) ==
    LET last   == sliceLast(split(permission.action, "."))
        action == IF last = <<>> THEN <<>> ELSE last[1]
        parts  == split(action, "-")
    IN  join([i \in 1..Len(parts) |-> capitalise(parts[i])])

----------------------------------------------------------------------------
(* Objects: sequences of <<key, value>> pairs in insertion order *)

Keys(obj) == {obj[i][1] : i \in 1..Len(obj)}

HasKey(obj, k) == k \in Keys(obj)

Get(obj, k) == obj[CHOOSE i \in 1..Len(obj) : obj[i][1] = k][2]

\* obj[k] = v, or { ...obj, [k]: v }: an existing key keeps its position
SetKey(obj, k, v) ==
    IF HasKey(obj, k)
    THEN [i \in 1..Len(obj) |-> IF obj[i][1] = k THEN <<k, v>> ELSE obj[i]]
    ELSE Append(obj, <<k, v>>)

\* { ...a, ...b }
RECURSIVE Spread(_, _)
Spread(a, b) ==
    IF b = <<>> THEN a ELSE Spread(SetKey(a, Head(b)[1], Head(b)[2]), Tail(b))

\* list.reduce((acc, permission) => ({ ...acc, [getActionName(permission)]: v }), {})
RECURSIVE ReduceNames(_, _, _)
ReduceNames(list, v, acc) ==
    IF list = <<>> THEN acc
    ELSE ReduceNames(Tail(list), v, SetKey(acc, getActionName(Head(list)), v))

Can == <<"c", "a", "n">>

\* the reduce at the end of useRBAC: acc[`can${capitalise(name)}`] = allowed
RECURSIVE ShapeEntries(_, _)
ShapeEntries(entries, acc) ==
    IF entries = <<>> THEN acc
    ELSE ShapeEntries(Tail(entries),
                      SetKey(acc, Can \o capitalise(Head(entries)[1]), Head(entries)[2]))

\* the result shaper without the spread of defaultAllowedActions
AllowedActionsOf_dataOnly(defaultAllowedActions, data) ==
    ShapeEntries(IF IsSome(data) THEN Val(data) ELSE <<>>, <<>>)

\* data is None (undefined) or Some(object); spreading undefined adds nothing
AllowedActionsOf(defaultAllowedActions, data) ==
    ShapeEntries(Spread(defaultAllowedActions,
                        IF IsSome(data) THEN Val(data) ELSE <<>>), <<>>)

----------------------------------------------------------------------------
(* Permissions, the inputs of a render and the collaborator's answers *)

Perm(a) == [action |-> a]

PCreate     == Perm(<<"r", ".", "c">>)     \* derived name C
PRead       == Perm(<<"r", ".", "r">>)     \* derived name R
PUserCreate == Perm(<<"u", ".", "c">>)     \* derived name C again

Arr(items) == [kind |-> "array", items |-> items]
Obj(entries) == [kind |-> "object", entries |-> entries]

ListA == <<PCreate, PRead>>
ListB == <<PUserCreate, PCreate>>

\* Record<string, Permission[]> arguments: <<key, value>> pairs in the
\* iteration order of the object
ObjA == Obj(<< <<"main", <<PCreate>> >>, <<"extra", <<PRead>> >> >>)
ObjB == Obj(<< <<"all", ListB>> >>)

\* the first argument of useRBAC
PermissionInputs == { Arr(ListA), Arr(ListB), ObjA }

PassedInputs == { None, Some(<<PRead>>) }

\* query.plugins?.i18n?.locale: undefined or a locale code
Locales == { None, Some("en") }

Errors == { "e1", "e2" }   \* rejection values

\* all subsequences of a list, in the order of the list
RECURSIVE SubLists(_)
SubLists(list) ==
    IF list = <<>> THEN { <<>> }
    ELSE LET rest == SubLists(Tail(list))
         IN  rest \cup { <<Head(list)>> \o r : r \in rest }

Resolve(res) == [kind |-> "resolve", res |-> res, err |-> "none"]
Reject(e) == [kind |-> "reject", res |-> None, err |-> e]

\* how a call of checkUserHasPermissions(perms, passed) can settle:
\* Promise<Permission[] | undefined> with the granted ones of perms, or a
\* rejection
Outcomes(perms) ==
    { Resolve(Some(g)) : g \in SubLists(perms) }
       \cup { Resolve(None) }
       \cup { Reject(e) : e \in Errors }

----------------------------------------------------------------------------
(* The normaliser *)

\* Object.values(permissionsToCheck)
ObjectValues(entries) == [i \in 1..Len(entries) |-> entries[i][2]]

\* Array.prototype.flat()
RECURSIVE flat(_)
flat(arrs) == IF arrs = <<>> THEN <<>> ELSE Head(arrs) \o flat(Tail(arrs))

\* the normaliser keeping only the first group of the mapping
actualPermissionsToCheck_firstGroup(permissionsToCheck) ==
    IF permissionsToCheck.kind = "array"
    THEN permissionsToCheck.items
    ELSE Head(ObjectValues(permissionsToCheck.entries))

\* the value computed by the useMemo of actualPermissionsToCheck
actualPermissionsToCheck(permissionsToCheck) ==
    IF permissionsToCheck.kind = "array"
    THEN permissionsToCheck.items
    ELSE flat(ObjectValues(permissionsToCheck.entries))

defaultAllowedActions(actual) == ReduceNames(actual, FALSE, <<>>)

\* lodash isEqual(permssionsChecked, actualPermissionsToCheck); the first
\* argument is undefined before the first usePrev effect
isEqual(checked, actual) == IsSome(checked) /\ Val(checked) = actual

----------------------------------------------------------------------------
(* One hook instance *)

\* the instance before its first render: the useState initialisers, the
\* empty refs of usePrev and the fresh wrapper of once(console.warn)
InitHook ==
    [ mounted            |-> FALSE,
      \* arguments of the last render
      permissionsToCheck |-> Arr(<<>>),
      passedPermissions  |-> None,
      \* useState
      isLoading          |-> TRUE,
      error              |-> None,
      data               |-> None,
      \* useDebounce(locale, 200)
      value              |-> None,       \* the value passed at the last render
      debouncedValue     |-> None,
      timer              |-> None,       \* Some(v): a timeout is armed for v
      \* usePrev
      permsRef           |-> None,
      localeRef          |-> None,
      \* once(console.warn)
      warnCalled         |-> FALSE,
      \* useMemo
      actual             |-> <<>>,
      defaults           |-> <<>>,
      \* the calls of checkUserHasPermissions: the latest one with its
      \* outcome (None while pending) and the earlier ones still pending
      current            |-> None,
      stale              |-> <<>>,
      nCalls             |-> 0 ]

\* fresh: permissionsToCheck is an object the hook has not seen before
RenderInputs ==
    [ permissionsToCheck : PermissionInputs,
      fresh              : BOOLEAN,
      passedPermissions  : PassedInputs,
      isLoadingAuth      : BOOLEAN,
      locale             : Locales ]

\* an object that is not new has the content it had at the last render
PossibleInput(s, inp) ==
    /\ ~s.mounted => inp.fresh
    /\ ~inp.fresh => inp.permissionsToCheck = s.permissionsToCheck

\* the useMemo of actualPermissionsToCheck recomputes on a new argument
Recomputes(s, inp) == ~s.mounted \/ inp.fresh

ActualOf(s, inp) ==
    IF Recomputes(s, inp) THEN actualPermissionsToCheck(inp.permissionsToCheck)
    ELSE s.actual

DefaultsOf(s, inp) ==
    IF Recomputes(s, inp) THEN defaultAllowedActions(ActualOf(s, inp))
    ELSE s.defaults

\* useDebounce: useState(value) on the first render
DebouncedOf(s, inp) == IF s.mounted THEN s.debouncedValue ELSE inp.locale

\* the condition of the effect comparing the lists by reference: a new
\* array counts as a change
Triggers_byReference(s, inp) ==
    \/ ~isEqual(s.permsRef, ActualOf(s, inp))
    \/ inp.fresh
    \/ s.localeRef /= DebouncedOf(s, inp)

\* the condition of the effect without its locale disjunct
Triggers_permissionsOnly(s, inp) ==
    ~isEqual(s.permsRef, ActualOf(s, inp))

\* the condition of the effect comparing localeChecked with the raw locale
\* of the query instead of the debounced one
Triggers_rawLocale(s, inp) ==
    \/ ~isEqual(s.permsRef, ActualOf(s, inp))
    \/ s.localeRef /= inp.locale

\* the condition of the effect also comparing passedPermissions with the
\* one of the last render
Triggers_passedChange(s, inp) ==
    \/ ~isEqual(s.permsRef, ActualOf(s, inp))
    \/ s.localeRef /= DebouncedOf(s, inp)
    \/ s.mounted /\ inp.passedPermissions /= s.passedPermissions

\* the condition of the effect, on what the render read: permssionsChecked
\* and localeChecked are the refs of usePrev as the last effects left them
Triggers(s, inp) ==
    \/ ~isEqual(s.permsRef, ActualOf(s, inp))
    \/ s.localeRef /= DebouncedOf(s, inp)

\* warnOnce(...) reaches console.warn in this render
Warns(s, inp) ==
    /\ Recomputes(s, inp)
    /\ inp.permissionsToCheck.kind = "object"
    /\ ~s.warnCalled

\* the value useRBAC returns from this render
ReturnOf(s, inp) ==
    [ allowedActions |-> AllowedActionsOf(DefaultsOf(s, inp), s.data),
      permissions    |-> ActualOf(s, inp),
      isLoading      |-> s.isLoading \/ inp.isLoadingAuth,
      error          |-> s.error ]

\* the effect setting the loading flag without clearing result and error
EffectWrites_keepsResult(s, trigger) ==
    [ isLoading |-> IF trigger THEN TRUE ELSE s.isLoading,
      data      |-> s.data,
      error     |-> s.error ]

\* setIsLoading(true); setData(undefined); setError(undefined) when the
\* condition of the effect holds
EffectWrites(s, trigger) ==
    [ isLoading |-> IF trigger THEN TRUE ELSE s.isLoading,
      data      |-> IF trigger THEN None ELSE s.data,
      error     |-> IF trigger THEN None ELSE s.error ]

\* one render of useRBAC and the effects it commits, in the order of the
\* hook calls: useDebounce, usePrev (twice), then the effect of useRBAC.
\* Every value the condition of the effect reads is among its dependencies,
\* so the effect runs whenever the condition holds.
RenderH(s, inp) ==
    LET actual == ActualOf(s, inp)
        debounced == DebouncedOf(s, inp)
        trigger == Triggers(s, inp)
        call == [ perms   |-> actual,
                  passed  |-> inp.passedPermissions,
                  locale  |-> debounced,      \* the debouncedLocale it was made for
                  outcome |-> None ]
    IN  [ s EXCEPT
            !.mounted = TRUE,
            !.permissionsToCheck = inp.permissionsToCheck,
            !.passedPermissions = inp.passedPermissions,
            !.warnCalled = s.warnCalled \/
                 (Recomputes(s, inp) /\ inp.permissionsToCheck.kind = "object"),
            !.actual = actual,
            !.defaults = DefaultsOf(s, inp),
            \* useDebounce
            !.value = inp.locale,
            !.debouncedValue = debounced,
            !.timer = IF ~s.mounted \/ inp.locale /= s.value
                      THEN Some(inp.locale) ELSE s.timer,
            \* usePrev
            !.permsRef = Some(actual),
            !.localeRef = debounced,
            \* the effect
            !.isLoading = EffectWrites(s, trigger).isLoading,
            !.data = EffectWrites(s, trigger).data,
            !.error = EffectWrites(s, trigger).error,
            !.current = IF trigger THEN Some(call) ELSE s.current,
            !.stale = IF trigger /\ IsSome(s.current) /\ Val(s.current).outcome = None
                      THEN Append(s.stale, [perms  |-> Val(s.current).perms,
                                            passed |-> Val(s.current).passed])
                      ELSE s.stale,
            !.nCalls = IF trigger THEN s.nCalls + 1 ELSE s.nCalls ]

CurrentPending(s) == IsSome(s.current) /\ Val(s.current).outcome = None

\* the callbacks without the finally callback
SettleState_keepsLoading(s, o) ==
    [ s EXCEPT
        !.data = IF o.kind = "resolve" /\ IsSome(o.res)
                 THEN Some(ReduceNames(Val(o.res), TRUE, <<>>)) ELSE s.data,
        !.error = IF o.kind = "reject" THEN Some(o.err) ELSE s.error ]

\* the then, catch and finally callbacks of a call that settles with o
SettleState(s, o) ==
    LET resolved == o.kind = "resolve" /\ IsSome(o.res)
        rejected == o.kind = "reject"
    IN  [ s EXCEPT
            !.data = IF resolved THEN Some(ReduceNames(Val(o.res), TRUE, <<>>))
                     ELSE s.data,
            !.error = IF rejected THEN Some(o.err) ELSE s.error,
            !.isLoading = FALSE ]

\* the promise of the latest call settles
SettleCurrentH(s, o) ==
    [ SettleState(s, o) EXCEPT !.current = Some([Val(s.current) EXCEPT !.outcome = Some(o)]) ]

\* the response of a superseded call is dropped instead of applied
SettleStaleH_discarded(s, i, o) ==
    [ s EXCEPT
        !.stale = SubSeq(s.stale, 1, i - 1) \o SubSeq(s.stale, i + 1, Len(s.stale)) ]

\* the promise of the earlier call stale[i] settles
SettleStaleH(s, i, o) ==
    [ SettleState(s, o) EXCEPT
        !.stale = SubSeq(s.stale, 1, i - 1) \o SubSeq(s.stale, i + 1, Len(s.stale)) ]

\* the timeout of useDebounce fires: setDebouncedValue(value)
TimerFireH(s) ==
    [ s EXCEPT !.debouncedValue = Val(s.timer), !.timer = None ]

----------------------------------------------------------------------------
(* The component: one hook instance at a time *)

Init ==
    /\ hook = InitHook
    /\ twin = InitHook
    /\ warnings = 0
    /\ mounts = 1
    /\ fnIn = <<>>
    /\ fnOut = [name |-> None, allowedActions |-> None]

Render(inp) ==
    /\ PossibleInput(hook, inp)
    /\ Triggers(hook, inp) => hook.nCalls < MaxChecks
    /\ hook' = RenderH(hook, inp)
    /\ warnings' = IF Warns(hook, inp) THEN warnings + 1 ELSE warnings
    /\ UNCHANGED <<twin, mounts, fnIn, fnOut>>

SettleCurrent(o) ==
    /\ CurrentPending(hook)
    /\ o \in Outcomes(Val(hook.current).perms)
    /\ hook' = SettleCurrentH(hook, o)
    /\ UNCHANGED <<twin, warnings, mounts, fnIn, fnOut>>

SettleStale(i, o) ==
    /\ i \in 1..Len(hook.stale)
    /\ o \in Outcomes(hook.stale[i].perms)
    /\ hook' = SettleStaleH(hook, i, o)
    /\ UNCHANGED <<twin, warnings, mounts, fnIn, fnOut>>

TimerFire ==
    /\ hook.mounted
    /\ IsSome(hook.timer)
    /\ hook' = TimerFireH(hook)
    /\ UNCHANGED <<twin, warnings, mounts, fnIn, fnOut>>

\* the component unmounts and another component using the hook mounts
Remount ==
    /\ hook.mounted
    /\ mounts < MaxMounts
    /\ hook' = InitHook
    /\ mounts' = mounts + 1
    /\ UNCHANGED <<twin, warnings, fnIn, fnOut>>

AllOutcomes == UNION { Outcomes(actualPermissionsToCheck(p)) : p \in PermissionInputs \cup {ObjB} }

Next ==
    \/ \E inp \in RenderInputs : Render(inp)
    \/ \E o \in AllOutcomes : SettleCurrent(o)
    \/ \E i \in 1..MaxChecks : \E o \in AllOutcomes : SettleStale(i, o)
    \/ TimerFire

Spec == Init /\ [][Next]_vars

\* every promise of checkUserHasPermissions settles and its callbacks run
SettlesCurrent == \E o \in AllOutcomes : SettleCurrent(o)

SettlesStale == \E i \in 1..MaxChecks : \E o \in AllOutcomes : SettleStale(i, o)

SpecLive == Spec /\ WF_vars(SettlesCurrent) /\ WF_vars(SettlesStale)

\* the process lifetime: components using the hook mount one after another
NextMounts == Next \/ Remount

SpecMounts == Init /\ [][NextMounts]_vars

----------------------------------------------------------------------------
(* SpecName: getActionName and the key of the result shaper on action strings *)

Alphabet == { "a", "b", ".", "-" }

RECURSIVE Strings(_)
Strings(n) ==
    IF n = 0 THEN { <<>> }
    ELSE LET shorter == Strings(n - 1)
         IN  shorter \cup { Append(x, c) : x \in shorter, c \in Alphabet }

AdminRolesCreate ==
    <<"a","d","m","i","n",":",":","r","o","l","e","s",".","c","r","e","a","t","e">>

AdminRolesCreateDraft == AdminRolesCreate \o <<"-","d","r","a","f","t">>

ActionStrings == Strings(MaxActionLen) \cup { AdminRolesCreate, AdminRolesCreateDraft }

InitName ==
    /\ hook = InitHook
    /\ twin = InitHook
    /\ warnings = 0
    /\ mounts = 1
    /\ fnIn \in ActionStrings
    /\ fnOut = [name |-> None, allowedActions |-> None]

\* getActionName({ action: fnIn })
DeriveName ==
    /\ fnOut.name = None
    /\ fnOut' = [fnOut EXCEPT !.name = Some(getActionName(Perm(fnIn)))]
    /\ UNCHANGED <<hook, twin, warnings, mounts, fnIn>>

\* the allowedActions of useRBAC([{ action: fnIn }]) once the check has
\* granted the permission
ShapeKey ==
    /\ fnOut.allowedActions = None
    /\ LET inp == [ permissionsToCheck |-> Arr(<<Perm(fnIn)>>), fresh |-> TRUE,
                    passedPermissions |-> None, isLoadingAuth |-> FALSE,
                    locale |-> None ]
           granted == SettleCurrentH(RenderH(InitHook, inp), Resolve(Some(<<Perm(fnIn)>>)))
       IN  fnOut' = [fnOut EXCEPT
                        !.allowedActions = Some(ReturnOf(granted, inp).allowedActions)]
    /\ UNCHANGED <<hook, twin, warnings, mounts, fnIn>>

NextName == DeriveName \/ ShapeKey

SpecName == InitName /\ [][NextName]_vars

----------------------------------------------------------------------------
(* SpecPair: a hook given the mapping form and a hook given the flattened  *)
(* array, with the same events and the same answers of the collaborator    *)

\* the mapping arguments and, written out, their values concatenated in
\* iteration order
PairInputs ==
    { <<ObjA, Arr(<<PCreate, PRead>>)>>,
      <<ObjB, Arr(<<PUserCreate, PCreate>>)>> }

WithPermissions(inp, p) == [inp EXCEPT !.permissionsToCheck = p]

InitPair ==
    /\ hook = InitHook
    /\ twin = InitHook
    /\ warnings = 0
    /\ mounts = 1
    /\ fnIn = <<>>
    /\ fnOut = [name |-> None, allowedActions |-> None]

PairRender(inp, pair) ==
    /\ PossibleInput(hook, WithPermissions(inp, pair[1]))
    /\ PossibleInput(twin, WithPermissions(inp, pair[2]))
    /\ Triggers(hook, WithPermissions(inp, pair[1])) => hook.nCalls < MaxChecks
    /\ Triggers(twin, WithPermissions(inp, pair[2])) => twin.nCalls < MaxChecks
    /\ hook' = RenderH(hook, WithPermissions(inp, pair[1]))
    /\ twin' = RenderH(twin, WithPermissions(inp, pair[2]))
    /\ warnings' = IF Warns(hook, WithPermissions(inp, pair[1])) THEN warnings + 1 ELSE warnings
    /\ UNCHANGED <<mounts, fnIn, fnOut>>

PairSettleCurrent(o) ==
    /\ CurrentPending(hook) /\ CurrentPending(twin)
    /\ o \in Outcomes(Val(hook.current).perms)
    /\ hook' = SettleCurrentH(hook, o)
    /\ twin' = SettleCurrentH(twin, o)
    /\ UNCHANGED <<warnings, mounts, fnIn, fnOut>>

PairSettleStale(i, o) ==
    /\ i \in 1..Len(hook.stale) /\ i \in 1..Len(twin.stale)
    /\ o \in Outcomes(hook.stale[i].perms)
    /\ hook' = SettleStaleH(hook, i, o)
    /\ twin' = SettleStaleH(twin, i, o)
    /\ UNCHANGED <<warnings, mounts, fnIn, fnOut>>

PairTimerFire ==
    /\ hook.mounted /\ twin.mounted
    /\ IsSome(hook.timer) /\ IsSome(twin.timer)
    /\ hook' = TimerFireH(hook)
    /\ twin' = TimerFireH(twin)
    /\ UNCHANGED <<warnings, mounts, fnIn, fnOut>>

NextPair ==
    \/ \E inp \in RenderInputs : \E pair \in PairInputs : PairRender(inp, pair)
    \/ \E o \in AllOutcomes : PairSettleCurrent(o)
    \/ \E i \in 1..MaxChecks : \E o \in AllOutcomes : PairSettleStale(i, o)
    \/ PairTimerFire

SpecPair == InitPair /\ [][NextPair]_vars

----------------------------------------------------------------------------
(* Properties *)

\* the renders the mounted component can make next
NextRenders == { inp \in RenderInputs : hook.mounted /\ PossibleInput(hook, inp) }

\* the derived action names of a permission list
Names(list) == { getActionName(list[i]) : i \in 1..Len(list) }

\* the flag canX of a returned value; a missing key reads as undefined
Flag(ret, X) ==
    IF HasKey(ret.allowedActions, Can \o X)
    THEN Some(Get(ret.allowedActions, Can \o X))
    ELSE None

\* the latest call was made for the inputs of render inp
CheckedFor(inp) == ~Triggers(hook, inp) /\ IsSome(hook.current)

CurrentOutcome == Val(hook.current).outcome

\* the list the latest call resolved with; nothing counts as the empty list
CurrentGranted ==
    IF IsSome(Val(CurrentOutcome).res) THEN Val(Val(CurrentOutcome).res) ELSE <<>>

CurrentResolved ==
    /\ IsSome(hook.current)
    /\ IsSome(CurrentOutcome)
    /\ Val(CurrentOutcome).kind = "resolve"

\* C1: once the check made for the current inputs has resolved, every
\* returned flag canX of a requested action is true exactly when the
\* resolved list holds a permission with derived name X.
C1_FlagsFollowResolvedCheck ==
    \A inp \in NextRenders :
        (CheckedFor(inp) /\ CurrentResolved) =>
            \A X \in Names(ActualOf(hook, inp)) :
                Flag(ReturnOf(hook, inp), X) = Some(X \in Names(CurrentGranted))

\* C2: every value returned while the check for the supplied inputs has not
\* settled (not yet called, or pending) has isLoading true and every
\* requested flag false.
C2_DeniedAndLoadingUntilSettled ==
    \A inp \in NextRenders :
        (Triggers(hook, inp) \/ CurrentPending(hook)) =>
            /\ ReturnOf(hook, inp).isLoading
            /\ \A X \in Names(ActualOf(hook, inp)) :
                   Flag(ReturnOf(hook, inp), X) = Some(FALSE)

\* a step in which the promise of some call rejects with e
Rejects(e) ==
    \/ SettleCurrent(Reject(e))
    \/ \E i \in 1..MaxChecks : SettleStale(i, Reject(e))

\* no result, or a result without any action
ResultEmpty(data) == data = None \/ Val(data) = <<>>

\* C3: after any rejection with e the error is e, the own loading flag is
\* false, the stored result is empty and every requested flag returned is
\* false.
C3_RejectionLeavesErrorAndNoResult ==
    [][\A e \in Errors :
          Rejects(e) =>
              /\ hook'.error = Some(e)
              /\ ~hook'.isLoading
              /\ ResultEmpty(hook'.data)
              /\ \A inp \in RenderInputs :
                     (PossibleInput(hook', inp) /\ ~Triggers(hook', inp)) =>
                         /\ ReturnOf(hook', inp).error = Some(e)
                         /\ \A X \in Names(ActualOf(hook', inp)) :
                                Flag(ReturnOf(hook', inp), X) = Some(FALSE)]_vars

\* C4: the keys of every returned allowedActions are exactly the can-names
\* of the supplied permission list.
C4_KeysExactlyRequested ==
    \A inp \in NextRenders :
        Keys(ReturnOf(hook, inp).allowedActions)
            = { Can \o X : X \in Names(ActualOf(hook, inp)) }

\* C5: every requested permission has its key in every returned
\* allowedActions, and the flag is false unless the stored result of a
\* resolved check holds that name.
C5_RequestedPresentDefaultDenied ==
    \A inp \in NextRenders :
        LET ret == ReturnOf(hook, inp)
        IN  \A X \in Names(actualPermissionsToCheck(inp.permissionsToCheck)) :
                /\ Flag(ret, X) /= None
                /\ Flag(ret, X) = Some(TRUE) =>
                       /\ IsSome(hook.data)
                       /\ HasKey(Val(hook.data), X)
                       /\ Get(Val(hook.data), X)

\* a stored result grants one requested action and not another
C5_Witness ==
    /\ hook.mounted
    /\ IsSome(hook.data)
    /\ \E X, Y \in Names(hook.actual) :
           /\ HasKey(Val(hook.data), X)
           /\ ~HasKey(Val(hook.data), Y)
           /\ \E inp \in NextRenders :
                  /\ Flag(ReturnOf(hook, inp), X) = Some(TRUE)
                  /\ Flag(ReturnOf(hook, inp), Y) = Some(FALSE)


\* the inputs of a render step, read off the arguments it stored
StepInputs ==
    { [ permissionsToCheck |-> hook'.permissionsToCheck,
        fresh              |-> f,
        passedPermissions  |-> hook'.passedPermissions,
        isLoadingAuth      |-> a,
        locale             |-> hook'.value ] : f \in BOOLEAN, a \in BOOLEAN }

\* the renders of a hook in state s that supply a deep-equal permission list
SameListRenders(s) ==
    { inp \in RenderInputs :
          /\ inp.permissionsToCheck = s.permissionsToCheck
          /\ PossibleInput(s, inp) }

\* C6: a render that finds a new debounced locale with a deep-equal
\* permission list makes exactly one call, with that list, and the renders
\* after it make none; a render that finds neither changed makes none.
C6_LocaleChangeChecksOnce ==
    [][\A inp \in StepInputs :
          ( /\ hook.mounted
            /\ isEqual(hook.permsRef, ActualOf(hook, inp))
            /\ Render(inp) ) =>
              IF hook.debouncedValue /= hook.localeRef
              THEN /\ hook'.nCalls = hook.nCalls + 1
                   /\ hook'.current = Some([ perms   |-> hook.actual,
                                             passed  |-> inp.passedPermissions,
                                             locale  |-> hook.debouncedValue,
                                             outcome |-> None ])
                   /\ \A again \in SameListRenders(hook') : ~Triggers(hook', again)
              ELSE /\ hook'.nCalls = hook.nCalls
                   /\ hook'.current = hook.current
                   /\ hook'.stale = hook.stale]_vars

\* two calls for the same list are pending: the second was made for a new
\* debounced locale
C6_Witness ==
    /\ hook.nCalls = 2
    /\ CurrentPending(hook)
    /\ Len(hook.stale) = 1
    /\ hook.stale[1].perms = Val(hook.current).perms
    /\ hook.localeRef = hook.debouncedValue

\* C7: the hook given the mapping form and the hook given the flattened
\* array have made the same calls and return the same permissions and
\* allowedActions from every render.
C7_MappingFormEquivalent ==
    /\ hook.current = twin.current
    /\ hook.stale = twin.stale
    /\ hook.nCalls = twin.nCalls
    /\ \A inp \in RenderInputs : \A pair \in PairInputs :
           ( /\ PossibleInput(hook, WithPermissions(inp, pair[1]))
             /\ PossibleInput(twin, WithPermissions(inp, pair[2])) ) =>
               LET m == ReturnOf(hook, WithPermissions(inp, pair[1]))
                   a == ReturnOf(twin, WithPermissions(inp, pair[2]))
               IN  /\ m.permissions = a.permissions
                   /\ m.allowedActions = a.allowedActions

\* both hooks have made two calls and hold a granted action
C7_Witness ==
    /\ hook.warnCalled
    /\ twin.mounted
    /\ hook.permissionsToCheck = ObjA
    /\ hook.nCalls = 2
    /\ IsSome(hook.data) /\ Val(hook.data) /= <<>>
    /\ IsSome(twin.data) /\ Val(twin.data) /= <<>>

\* C8: console.warn is reached at most once in the process lifetime, and
\* once if the mounted component has used the mapping form.
C8_WarnedAtMostOnce ==
    /\ warnings <= 1
    /\ hook.warnCalled => warnings = 1

\* C9: once the check for the current inputs has resolved with a list, the
\* returned permissions are that list.
C9_PermissionsAreGranted ==
    \A inp \in NextRenders :
        (CheckedFor(inp) /\ CurrentResolved /\ IsSome(Val(CurrentOutcome).res)) =>
            ReturnOf(hook, inp).permissions = CurrentGranted

\* the camel-cased last segment, character by character: from position j
\* of t, hyphens dropped, the first character and every character after a
\* hyphen in upper case
RECURSIVE Camel(_, _)
Camel(t, j) ==
    IF j > Len(t) THEN <<>>
    ELSE (IF t[j] = "-" THEN <<>>
          ELSE IF j = 1 \/ t[j - 1] = "-"
               THEN << CASE t[j] = "a" -> "A" [] t[j] = "b" -> "B" [] OTHER -> t[j] >>
               ELSE << t[j] >>) \o Camel(t, j + 1)

LastDot(a) ==
    IF \E i \in 1..Len(a) : a[i] = "."
    THEN CHOOSE i \in 1..Len(a) : a[i] = "." /\ \A j \in (i + 1)..Len(a) : a[j] /= "."
    ELSE 0

ExpectedName(a) ==
    IF a = AdminRolesCreate THEN <<"C","r","e","a","t","e">>
    ELSE IF a = AdminRolesCreateDraft THEN <<"C","r","e","a","t","e","D","r","a","f","t">>
    ELSE Camel(SubSeq(a, LastDot(a) + 1, Len(a)), 1)

\* C10: the derived name is the camel-cased last dot-separated segment of
\* the action, and the key of allowedActions is can followed by that name.
C10_DerivedKey ==
    /\ IsSome(fnOut.name) => Val(fnOut.name) = ExpectedName(fnIn)
    /\ IsSome(fnOut.allowedActions) =>
           Val(fnOut.allowedActions) = << <<Can \o ExpectedName(fnIn), TRUE>> >>

\* admin::roles.create-draft has been derived and shaped
C10_Witness ==
    /\ fnIn = AdminRolesCreateDraft
    /\ fnOut.name = Some(<<"C","r","e","a","t","e","D","r","a","f","t">>)
    /\ fnOut.allowedActions =
           Some(<< << <<"c","a","n","C","r","e","a","t","e","D","r","a","f","t">>, TRUE >> >>)


NoDot(a) == \A i \in 1..Len(a) : a[i] /= "."

\* C11 as claimed: an action string without a dot derives the empty name,
\* so that its key is just can.
C11_NoDotGivesEmptyName ==
    NoDot(fnIn) =>
        /\ IsSome(fnOut.name) => Val(fnOut.name) = <<>>
        /\ IsSome(fnOut.allowedActions) =>
               Val(fnOut.allowedActions) = << <<Can, TRUE>> >>

\* C11 as amended: an action string without a dot is its own last segment;
\* getActionName does not fail on it and derives the camel-cased whole
\* string, which is empty only when the string has no character but hyphens.
C11_NoDotGivesWholeString ==
    NoDot(fnIn) =>
        /\ IsSome(fnOut.name) =>
               /\ Val(fnOut.name) = Camel(fnIn, 1)
               /\ Val(fnOut.name) = <<>> <=> \A i \in 1..Len(fnIn) : fnIn[i] = "-"
        /\ IsSome(fnOut.allowedActions) =>
               Val(fnOut.allowedActions) = << <<Can \o Camel(fnIn, 1), TRUE>> >>

\* the action a-b, without a dot, has been derived as AB and shaped as canAB
C11_Witness ==
    /\ fnIn = <<"a", "-", "b">>
    /\ fnOut.name = Some(<<"A", "B">>)
    /\ fnOut.allowedActions = Some(<< << <<"c", "a", "n", "A", "B">>, TRUE >> >>)


\* C12: a returned value with isLoading false and no error carries the flags
\* of a check made for the supplied list and debounced locale: that check
\* has resolved and a flag is true only for a name it granted.
C12_LoadedMeansCheckedForCurrentInputs ==
    \A inp \in NextRenders :
        LET ret == ReturnOf(hook, inp)
        IN  (~ret.isLoading /\ ret.error = None) =>
                /\ CheckedFor(inp)
                /\ CurrentResolved
                /\ \A X \in Names(ret.permissions) :
                       Flag(ret, X) = Some(TRUE) => X \in Names(CurrentGranted)


\* what the callbacks of a call settling with o write, whatever was stored:
\* the granted names for a resolved list, the rejection value, and a
\* loading flag of false; the rest is left as it was
Written(o) ==
    /\ ~hook'.isLoading
    /\ IF o.kind = "resolve" /\ IsSome(o.res)
       THEN /\ IsSome(hook'.data)
            /\ Keys(Val(hook'.data)) = Names(Val(o.res))
            /\ \A X \in Names(Val(o.res)) : Get(Val(hook'.data), X)
       ELSE hook'.data = hook.data
    /\ IF o.kind = "reject"
       THEN hook'.error = Some(o.err)
       ELSE hook'.error = hook.error

ChangedSinceLastCheck(inp) ==
    \/ ~hook.mounted
    \/ hook.current = None
    \/ ActualOf(hook, inp) /= Val(hook.current).perms
    \/ DebouncedOf(hook, inp) /= Val(hook.current).locale

\* C14: the effects of a render call checkUserHasPermissions once when the
\* list is not deep-equal to the one of the previous check or the debounced
\* locale differs from the one of the previous check (as on mount), and not
\* at all otherwise, also when the list is a new array of equal content.
C14_CallIffInputsChanged ==
    \A inp \in RenderInputs :
        PossibleInput(hook, inp) =>
            LET after == RenderH(hook, inp)
            IN  IF ChangedSinceLastCheck(inp)
                THEN /\ after.nCalls = hook.nCalls + 1
                     /\ Val(after.current).perms = ActualOf(hook, inp)
                     /\ Val(after.current).outcome = None
                ELSE /\ after.nCalls = hook.nCalls
                     /\ after.current = hook.current
                     /\ after.stale = hook.stale

\* a second call was made for a changed list while the first was pending,
\* and a render with a new array of the same content comes next
C14_Witness ==
    /\ hook.mounted
    /\ hook.nCalls = 2
    /\ Len(hook.stale) = 1
    /\ hook.stale[1].perms /= Val(hook.current).perms
    /\ \E inp \in NextRenders : inp.fresh /\ ~ChangedSinceLastCheck(inp)


\* C15: the step that makes a call of checkUserHasPermissions leaves the
\* result and the error cleared and the loading flag true, whatever they
\* were, and the call carries the normalised list and the passedPermissions
\* of that render.
C15_TriggerResetsState ==
    [][hook'.nCalls = hook.nCalls + 1 =>
          /\ hook'.data = None
          /\ hook'.error = None
          /\ hook'.isLoading
          /\ IsSome(hook'.current)
          /\ Val(hook'.current).perms = actualPermissionsToCheck(hook'.permissionsToCheck)
          /\ Val(hook'.current).passed = hook'.passedPermissions
          /\ Val(hook'.current).outcome = None]_vars

\* the first call has settled, so the loading flag was false, and the
\* second call has been made with passedPermissions
C15_Witness ==
    /\ hook.nCalls = 2
    /\ hook.stale = <<>>
    /\ CurrentPending(hook)
    /\ Val(hook.current).passed = Some(<<PRead>>)
    /\ hook.data = None /\ hook.error = None /\ hook.isLoading


\* a step in which the promise of some call settles
SettlingStep ==
    \/ Len(hook'.stale) < Len(hook.stale)
    \/ CurrentPending(hook) /\ ~CurrentPending(hook') /\ hook'.nCalls = hook.nCalls

\* C16: every settling, with a list, with nothing or with a rejection,
\* leaves the own loading flag false; when every promise settles, the flag
\* of the mounted hook is eventually false for good once the inputs have
\* stopped changing.
C16_SettlingClearsLoading ==
    /\ [][SettlingStep => ~hook'.isLoading]_vars
    /\ <>[](hook.mounted => ~hook.isLoading)

\* every call made has settled, the last of them with nothing, and the
\* loading flag is false
C16_Witness ==
    /\ hook.mounted
    /\ hook.nCalls = MaxChecks
    /\ hook.stale = <<>>
    /\ CurrentResolved
    /\ Val(CurrentOutcome).res = None
    /\ ~hook.isLoading


\* the re-renders of a hook in state s that a state change schedules: the
\* arguments and the query are those of its last render, the array being
\* the same one or a new deep-equal one
ReRenders(s) ==
    { [ permissionsToCheck |-> s.permissionsToCheck,
        fresh              |-> f,
        passedPermissions  |-> s.passedPermissions,
        isLoadingAuth      |-> a,
        locale             |-> s.value ] : f \in BOOLEAN, a \in BOOLEAN }

\* a step in which the timer of useDebounce fires
TimerFireStep == IsSome(hook.timer) /\ hook'.timer = None

\* C17: a step that changes the raw locale, which only a render does, and
\* finds the list deep-equal,
\* no debounced change being pending, makes no call, leaves the debounced
\* locale alone and re-arms the one timer; only the firing of the timer
\* moves the debounced locale, to the last raw value, so a burst of changes
\* leads to one call, by the re-render after the firing, and to none when
\* it ends on the debounced value.
C17_LocaleChangeIsDebounced ==
    [][ /\ ( /\ hook.mounted
             /\ hook'.value /= hook.value
             /\ hook.debouncedValue = hook.localeRef
             /\ isEqual(hook.permsRef, hook'.actual) ) =>
                  /\ hook'.nCalls = hook.nCalls
                  /\ hook'.current = hook.current
                  /\ hook'.debouncedValue = hook.debouncedValue
                  /\ hook'.timer = Some(hook'.value)
        /\ (hook.mounted /\ hook'.debouncedValue /= hook.debouncedValue) =>
               TimerFireStep
        /\ TimerFireStep =>
              /\ hook'.debouncedValue = hook.value
              /\ hook'.nCalls = hook.nCalls
              /\ \A inp \in ReRenders(hook') :
                    /\ Triggers(hook', inp) <=>
                          ( \/ hook.debouncedValue /= hook.value
                            \/ hook.localeRef /= hook.debouncedValue )
                    /\ \A rendered \in {RenderH(hook', inp)} :
                          \A again \in ReRenders(rendered) :
                              ~Triggers(rendered, again) ]_vars


\* the raw locale differs from the debounced one while the timer runs and
\* no call has been made for it
C17_WitnessBurst ==
    /\ hook.mounted
    /\ hook.nCalls = 1
    /\ IsSome(hook.timer)
    /\ hook.value /= hook.debouncedValue


\* C18: a re-render that finds the permission list deep-equal and the
\* debounced locale as checked, whatever passedPermissions and auth-loading
\* flag it is given, makes no call and leaves the stored result, the error
\* and the own loading flag as they were.
C18_OtherInputsChangeNothing ==
    \A inp \in NextRenders :
        ( /\ isEqual(hook.permsRef, ActualOf(hook, inp))
          /\ hook.debouncedValue = hook.localeRef ) =>
            LET rendered == RenderH(hook, inp)
            IN  /\ rendered.nCalls = hook.nCalls
                /\ rendered.current = hook.current
                /\ rendered.stale = hook.stale
                /\ rendered.data = hook.data
                /\ rendered.error = hook.error
                /\ rendered.isLoading = hook.isLoading

\* the only call was made with another passedPermissions than the last
\* render was given, and its result is still stored
C18_Witness ==
    /\ hook.mounted
    /\ hook.nCalls = 1
    /\ CurrentResolved
    /\ Val(hook.current).passed /= hook.passedPermissions
    /\ IsSome(hook.data)
    /\ ~hook.isLoading

====
